---------------------------- MODULE Spec2Model ----------------------------
(***************************************************************************)
(* A model of the cyphal.rs frame engine: the classic-CAN transport codec  *)
(* (transport/can/legacy.rs), the map-backed transfer manager              *)
(* (transfer/map_manager.rs) and the node dispatcher (node.rs).            *)
(*                                                                         *)
(* Rust values are represented as follows.                                 *)
(*   Option<T>      a sequence of length 0 (None) or 1 (Some(x))           *)
(*   Vec<u8>, &[u8] a sequence of integers in 0..255                       *)
(*   HashMap<K, V>  a function whose DOMAIN is the set of stored keys      *)
(*   Result<T, E>   a record [tag, err, token]                             *)
(*   a panic        the flag `panicked`; nothing runs after it             *)
(***************************************************************************)
EXTENDS Integers, Sequences, FiniteSets, TLC

VARIABLES
    id,             \* Node.id : Option<NodeId>
    rx_transfers,   \* MapTransferManager.rx_transfers
    tx_transfers,   \* MapTransferManager.tx_transfers
    clock,          \* the host's monotonic clock (source of timestamps)
    panicked,       \* TRUE once an operation has panicked
    last,           \* the operation performed by the last step and its outcome
    tx_input,       \* history: what create_transmission was given and how many
                    \* frames were produced since, per stored TX token
    rx_log,         \* history: what each stored RX entry was given: the
                    \* number of frames, their bytes, whether its token was
                    \* handed out, and whether no frame followed the last one
    wire            \* history: the round trip in progress (loop-back delivery)

vars == <<id, rx_transfers, tx_transfers, clock, panicked, last,
          tx_input, rx_log, wire>>

-----------------------------------------------------------------------------
(* Bounds of the model.                                                    *)

\* The clock runs from 0 to MaxTime.
MaxTime == 1
\* Number of distinct values a token can take (stands for the 2^64 values of
\* the u64 that DefaultHasher::finish returns).
HashSpace == 3
\* Largest number of entries kept in the TX map and in the RX map.
MaxTx == 1
MaxRx == 1
\* Largest reassembled RX payload, in bytes.
MaxRxLen == 11
\* Time runs up to MaxGapTime, and an RX payload grows up to MaxGapLen
\* bytes, where the time between the frames of a transfer is examined.
MaxGapTime == 2
MaxGapLen == 14

-----------------------------------------------------------------------------
(* Option, bytes and bit fields.                                           *)

None == <<>>
Some(x) == <<x>>
is_some(o) == o # None
unwrap(o) == o[1]

Pow2(n) == 2 ^ n
\* bits [lo, lo + width) of x
Bits(x, lo, width) == (x \div Pow2(lo)) % Pow2(width)
Bit(x, n) == Bits(x, n, 1) = 1
B(b) == IF b THEN 1 ELSE 0

RECURSIVE BitXor(_, _)
BitXor(a, b) ==
    IF a = 0 THEN b
    ELSE IF b = 0 THEN a
    ELSE ((a + b) % 2) + 2 * BitXor(a \div 2, b \div 2)

RECURSIVE BitAnd(_, _)
BitAnd(a, b) ==
    IF a = 0 \/ b = 0 THEN 0
    ELSE ((a % 2) * (b % 2)) + 2 * BitAnd(a \div 2, b \div 2)

\* A minimum that is always 0.
NoBytes(a, b) == 0
Min(a, b) == IF a <= b THEN a ELSE b

\* &s[from..] for a 0-based Rust index `from`
SliceFrom(s, from) == SubSeq(s, from + 1, Len(s))
\* &s[0..to]
SliceTo(s, to) == SubSeq(s, 1, to)

-----------------------------------------------------------------------------
(* CRC-16/CCITT-FALSE (crc_any::CRCu16::crc16ccitt_false): polynomial      *)
(* 0x1021, initial value 0xFFFF, no reflection, no final xor.              *)

RECURSIVE crc_shift(_, _)
crc_shift(crc, n) ==
    IF n = 0 THEN crc
    ELSE crc_shift(IF crc >= 32768
                     THEN BitXor((crc * 2) % 65536, 4129)
                     ELSE (crc * 2) % 65536,
                   n - 1)

crc16ccitt_false == 65535

\* The byte-wise form of the same computation: the effect of one byte on the
\* high byte of the register, and the xor of two bytes.
CrcTable == [byte \in 0 .. 255 |-> crc_shift(byte * 256, 8)]
Xor4 == [a \in 0 .. 15 |-> [b \in 0 .. 15 |-> BitXor(a, b)]]
Xor8(a, b) == Xor4[a \div 16][b \div 16] * 16 + Xor4[a % 16][b % 16]

crc_digest_byte(crc, byte) ==
    LET t == CrcTable[Xor8(crc \div 256, byte)]
    IN  Xor8(crc % 256, t \div 256) * 256 + (t % 256)

RECURSIVE crc_digest(_, _)
crc_digest(crc, bytes) ==
    IF bytes = <<>> \/ crc < 0 THEN crc
    ELSE crc_digest(crc_digest_byte(crc, Head(bytes)), Tail(bytes))

-----------------------------------------------------------------------------
(* Results.                                                                *)

Ok(token) == [tag |-> "Ok", err |-> "", token |-> token]
Err(e) == [tag |-> "Err", err |-> e, token |-> None]

-----------------------------------------------------------------------------
(* transfer/mod.rs: TransferKind, TransferMetadata, Frame.                 *)

\* `self.transfer_kind as u8`: the discriminant, in declaration order.
TransferKind_as_u8(kind) ==
    CASE kind = "Message" -> 0
      [] kind = "Response" -> 1
      [] kind = "Request" -> 2

\* The struct of transfer/mod.rs, with the six fields it declares.
TransferMetadata(timestamp, priority, transfer_kind, port_id, remote_node_id, transfer_id) ==
    [timestamp |-> timestamp, priority |-> priority,
     transfer_kind |-> transfer_kind, port_id |-> port_id,
     remote_node_id |-> remote_node_id, transfer_id |-> transfer_id]

\* node.rs reads `destination_node_id` (and start_tx_transfer writes
\* `source_node_id` and `destination_node_id`), fields the struct of
\* transfer/mod.rs does not declare and the codec never assigns.  A field
\* that the value's constructor did not assign reads as None.
field_or_none(metadata, name) ==
    IF name \in DOMAIN metadata THEN metadata[name] ELSE None

\* A destination that is always present.
remote_node_id_always(metadata) == Some(2)

remote_node_id_of(metadata) == field_or_none(metadata, "remote_node_id")
destination_node_id_of(metadata) ==
    field_or_none(metadata, "destination_node_id")

\* The metadata without its timestamp: what identifies a transfer.
Identity(metadata) ==
    <<metadata.priority, metadata.transfer_kind, metadata.port_id,
      remote_node_id_of(metadata), metadata.transfer_id>>

u16_bytes(x) == <<x % 256, (x \div 256) % 256>>

\* A fingerprint that is the same for every transfer.
hash_metadata_constant(metadata) == 0

\* impl Hash for TransferMetadata: the bytes written to the hasher.
\* The timestamp is not written.
TransferMetadata_hash(metadata) ==
    <<metadata.priority, TransferKind_as_u8(metadata.transfer_kind)>>
    \o (IF is_some(remote_node_id_of(metadata))
          THEN u16_bytes(unwrap(remote_node_id_of(metadata)))
          ELSE <<>>)
    \o u16_bytes(metadata.port_id)
    \o <<metadata.transfer_id>>

\* DefaultHasher: a fixed-width hash of the bytes written, the same for the
\* same bytes and many-to-one.  The width is HashSpace values.
RECURSIVE Hasher_finish(_, _)
Hasher_finish(state, bytes) ==
    IF bytes = <<>> THEN state
    ELSE Hasher_finish((state * 31 + Head(bytes) + Len(bytes)) % HashSpace,
                       Tail(bytes))

hash_metadata_with_timestamp(metadata) ==
    Hasher_finish(0, <<metadata.timestamp>> \o TransferMetadata_hash(metadata))

\* map_manager.rs hash_metadata; RxToken(u64) and TxToken(u64) wrap its value.
hash_metadata(metadata) == Hasher_finish(0, TransferMetadata_hash(metadata))

Tokens == 0 .. (HashSpace - 1)

\* A frame that always counts as the first of its transfer.
Frame_always_first(metadata, payload, first_frame, last_frame) ==
    [metadata |-> metadata, payload |-> payload,
     first_frame |-> TRUE, last_frame |-> last_frame]

Frame(metadata, payload, first_frame, last_frame) ==
    [metadata |-> metadata, payload |-> payload,
     first_frame |-> first_frame, last_frame |-> last_frame]

-----------------------------------------------------------------------------
(* transport/can/bitfields.rs: the tail byte and the 29-bit CAN            *)
(* identifiers.                                                            *)

\* A tail byte whose end_of_transfer bit is set on every frame.
TailByte_always_last(start_of_transfer, end_of_transfer, toggle, transfer_id) ==
    B(start_of_transfer) * 128 + 64 + B(toggle) * 32 + (transfer_id % 32)

\* Tail byte: start_of_transfer, end_of_transfer, toggle, transfer_id (5 bits).
TailByte_new(start_of_transfer, end_of_transfer, toggle, transfer_id) ==
    B(start_of_transfer) * 128 + B(end_of_transfer) * 64 + B(toggle) * 32
    + (transfer_id % 32)

TailByte_start_of_transfer(tail) == Bit(tail, 7)
TailByte_end_of_transfer(tail) == Bit(tail, 6)
TailByte_toggle(tail) == Bit(tail, 5)
TailByte_transfer_id(tail) == Bits(tail, 0, 5)

\* Message identifier: priority (3) . service-not-message = 0 . anonymous .
\* reserved = 0 . reserved (2, sent as 1) . subject_id (13) . reserved = 0 .
\* source_id (7).
CanMessageId_new(priority, subject_id, source) ==
    (priority % 8) * Pow2(26)
    + B(~is_some(source)) * Pow2(24)
    + 3 * Pow2(21)
    + (subject_id % 8192) * Pow2(8)
    + (IF is_some(source) THEN unwrap(source) % 128 ELSE 0)

\* Service identifier: priority (3) . service-not-message = 1 .
\* request-not-response . reserved = 0 . service_id (9) . destination_id (7) .
\* source_id (7).
CanServiceId_new(priority, is_request, service_id, destination, source) ==
    (priority % 8) * Pow2(26)
    + Pow2(25)
    + B(is_request) * Pow2(24)
    + (service_id % 512) * Pow2(14)
    + (destination % 128) * Pow2(7)
    + (source % 128)

CanId_priority(raw) == Bits(raw, 26, 3)
CanId_is_svc(raw) == Bit(raw, 25)
CanId_source_id(raw) == Bits(raw, 0, 7)
CanServiceId_is_req(raw) == Bit(raw, 24)
CanServiceId_service_id(raw) == Bits(raw, 14, 9)
CanServiceId_destination_id(raw) == Bits(raw, 7, 7)
CanServiceId_valid(raw) == ~Bit(raw, 23)
CanMessageId_is_anon(raw) == Bit(raw, 24)
CanMessageId_subject_id(raw) == Bits(raw, 8, 13)
CanMessageId_valid(raw) == ~Bit(raw, 23) /\ ~Bit(raw, 7)

\* CanFrame { timestamp, id, payload }
CanFrame(timestamp, raw_id, payload) ==
    [timestamp |-> timestamp, id |-> raw_id, payload |-> payload]

-----------------------------------------------------------------------------
(* transport/can/legacy.rs: the classic CAN codec.                         *)

MTU_SIZE == 8
CRC_SIZE == 2

TxMetadata_toggle_false ==
    [first_frame |-> FALSE, toggle_bit |-> FALSE]

\* impl Default for TxMetadata
TxMetadata_default == [first_frame |-> FALSE, toggle_bit |-> TRUE]

\* impl Default for RxMetadata
RxMetadata_default == [crc |-> crc16ccitt_false, toggle_bit |-> FALSE]

get_crc_padded_size(requested_size) == requested_size + 2

\* update_rx_metadata without its toggle check.
update_rx_metadata_any_toggle(transport_metadata, frame_metadata, frame) ==
    [res |-> Ok(None),
     transport_metadata |->
         [crc |-> crc_digest(transport_metadata.crc, frame.payload),
          toggle_bit |-> frame_metadata.toggle_bit]]

\* Returns the Result and the transport metadata as the call leaves it.
update_rx_metadata(transport_metadata, frame_metadata, frame) ==
    IF frame_metadata.toggle_bit = transport_metadata.toggle_bit
      THEN [res |-> Err("InvalidFrameOrdering"),
            transport_metadata |-> transport_metadata]
      ELSE [res |-> Ok(None),
            transport_metadata |->
                [crc |-> crc_digest(transport_metadata.crc, frame.payload),
                 toggle_bit |-> frame_metadata.toggle_bit]]

\* buffer[index] = value, for a 0-based index; an index outside the buffer
\* panics.
IndexInBounds(buffer, index) == index < Len(buffer)
Store(buffer, index, value) == [buffer EXCEPT ![index + 1] = value]

\* process_tx_crc: [panic, buffer, len].  `&buffer[0..data_size]` and the two
\* stores are bounds-checked.  `crc & 0xFF00 >> 8` parses as
\* `crc & (0xFF00 >> 8)`.
process_tx_crc(buffer, data_size) ==
    LET crc == crc_digest(crc16ccitt_false, SliceTo(buffer, data_size))
    IN  IF data_size > Len(buffer) \/ ~IndexInBounds(buffer, data_size + 1)
          THEN [panic |-> TRUE, buffer |-> buffer, len |-> 0]
          ELSE [panic |-> FALSE,
                buffer |-> Store(Store(buffer, data_size, BitAnd(crc, 255)),
                                 data_size + 1,
                                 BitAnd(crc, 65280 \div 256) % 256),
                len |-> data_size + 2]

\* rx_process_frame with only its first check.
rx_process_frame_lenient(frame) ==
    IF frame.payload = <<>> THEN [res |-> Err("FrameEmpty")]
    ELSE [res |-> Ok(None)]

rx_process_frame(frame) ==
    IF frame.payload = <<>> THEN [res |-> Err("FrameEmpty")]
    ELSE
    LET tail_byte == frame.payload[Len(frame.payload)]
        body == SliceTo(frame.payload, Len(frame.payload) - 1)
        frame_metadata == [toggle_bit |-> TailByte_toggle(tail_byte)]
    IN  IF TailByte_start_of_transfer(tail_byte) /\ ~TailByte_toggle(tail_byte)
          THEN [res |-> Err("TransferStartMissingToggle")]
        ELSE IF ~TailByte_end_of_transfer(tail_byte)
                /\ Len(frame.payload) < MTU_SIZE
          THEN [res |-> Err("NonLastUnderUtilization")]
        ELSE IF CanId_is_svc(frame.id)
          THEN IF ~CanServiceId_valid(frame.id)
                 THEN [res |-> Err("InvalidCanId")]
                 ELSE [res |-> Ok(None),
                       frame |-> Frame(
                           TransferMetadata(
                               frame.timestamp,
                               CanId_priority(frame.id),
                               IF CanServiceId_is_req(frame.id)
                                 THEN "Request" ELSE "Response",
                               CanServiceId_service_id(frame.id),
                               Some(CanId_source_id(frame.id)),
                               TailByte_transfer_id(tail_byte)),
                           body,
                           TailByte_start_of_transfer(tail_byte),
                           TailByte_end_of_transfer(tail_byte)),
                       frame_metadata |-> frame_metadata]
        ELSE IF CanMessageId_is_anon(frame.id)
                /\ ~(TailByte_start_of_transfer(tail_byte)
                     /\ TailByte_end_of_transfer(tail_byte))
          THEN [res |-> Err("AnonNotSingleFrame")]
        ELSE IF ~CanMessageId_valid(frame.id)
          THEN [res |-> Err("InvalidCanId")]
        ELSE [res |-> Ok(None),
              frame |-> Frame(
                  TransferMetadata(
                      frame.timestamp,
                      CanId_priority(frame.id),
                      "Message",
                      CanMessageId_subject_id(frame.id),
                      IF CanMessageId_is_anon(frame.id)
                        THEN None ELSE Some(CanId_source_id(frame.id)),
                      TailByte_transfer_id(tail_byte)),
                  body,
                  TailByte_start_of_transfer(tail_byte),
                  TailByte_end_of_transfer(tail_byte)),
              frame_metadata |-> frame_metadata]

\* Can::transmit_frame: [res, transport_metadata, frame, consumed].  The
\* transport metadata is updated before the identifier is built, so it is
\* updated on the error returns too.
Can_transmit_frame(transfer_metadata, transport_metadata, data, node_id, timestamp) ==
    LET first_frame == transport_metadata.first_frame
        last_frame == Len(data) <= 7
        toggle_bit == transport_metadata.toggle_bit
        updated == [first_frame |-> FALSE, toggle_bit |-> ~toggle_bit]
        kind == transfer_metadata.transfer_kind
        remote == remote_node_id_of(transfer_metadata)
        tail_byte == TailByte_new(first_frame, last_frame, toggle_bit,
                                  transfer_metadata.transfer_id)
        consume_len == Min(7, Len(data))
        fail(e) == [res |-> Err(e), transport_metadata |-> updated,
                    consumed |-> 0]
        emit(frame_id) ==
            [res |-> Ok(None), transport_metadata |-> updated,
             frame |-> CanFrame(timestamp, frame_id,
                                SliceTo(data, consume_len) \o <<tail_byte>>),
             consumed |-> consume_len]
    IN  IF kind = "Message"
          THEN IF ~last_frame /\ ~is_some(node_id)
                 THEN fail("AnonNotSingleFrame")
                 ELSE emit(CanMessageId_new(transfer_metadata.priority,
                                            transfer_metadata.port_id,
                                            node_id))
        ELSE IF ~is_some(node_id) THEN fail("ServiceNoSourceID")
        ELSE IF ~is_some(remote) THEN fail("ServiceNoDestinationID")
        ELSE emit(CanServiceId_new(transfer_metadata.priority,
                                   kind = "Request",
                                   transfer_metadata.port_id,
                                   unwrap(remote), unwrap(node_id)))

-----------------------------------------------------------------------------
(* transfer/map_manager.rs: MapTransferManager.                            *)
(* An entry is TransferStatus::Active(transfer) or TransferStatus::TimedOut. *)

TimedOut == [status |-> "TimedOut"]

RxTransfer(transfer_metadata, transport_metadata, payload) ==
    [status |-> "Active", transfer_metadata |-> transfer_metadata,
     transport_metadata |-> transport_metadata, payload |-> payload]

TxTransfer(transfer_metadata, transport_metadata, consumed, payload) ==
    [status |-> "Active", transfer_metadata |-> transfer_metadata,
     transport_metadata |-> transport_metadata, consumed |-> consumed,
     payload |-> payload]

EmptyMap == [k \in {} |-> TimedOut]
Insert(map, key, value) ==
    [k \in (DOMAIN map) \cup {key} |-> IF k = key THEN value ELSE map[k]]
\* A removal that removes nothing.
Keep(map, key) == map
Remove(map, key) == [k \in (DOMAIN map) \ {key} |-> map[k]]

IsActive(map, key) == key \in DOMAIN map /\ map[key].status = "Active"
IsTimedOut(map, key) == key \in DOMAIN map /\ map[key].status = "TimedOut"

\* An append_frame that extends the payload before it checks the toggle.
append_frame_extends_first(rx, frame, metadata) ==
    LET token == hash_metadata(frame.metadata)
        extended == [rx EXCEPT ![token].payload = @ \o frame.payload]
        upd == update_rx_metadata(rx[token].transport_metadata, metadata,
                                  frame)
    IN  IF token \notin DOMAIN rx
          THEN [res |-> Err("DoesNotExist"), rx |-> rx]
        ELSE IF rx[token].status = "TimedOut"
          THEN [res |-> Err("TimedOut"), rx |-> rx]
        ELSE IF upd.res.tag = "Err"
          THEN [res |-> upd.res, rx |-> extended]
        ELSE [res |-> Ok(IF frame.last_frame THEN Some(token) ELSE None),
              rx |-> [extended EXCEPT ![token].transport_metadata =
                                          upd.transport_metadata]]

\* append_frame: [res, rx]
append_frame(rx, frame, metadata) ==
    LET token == hash_metadata(frame.metadata)
    IN  IF token \notin DOMAIN rx
          THEN [res |-> Err("DoesNotExist"), rx |-> rx]
        ELSE IF rx[token].status = "TimedOut"
          THEN [res |-> Err("TimedOut"), rx |-> rx]
        ELSE
          LET rx_transfer == rx[token]
              upd == update_rx_metadata(rx_transfer.transport_metadata,
                                        metadata, frame)
          IN  IF upd.res.tag = "Err"
                THEN [res |-> upd.res, rx |-> rx]
                ELSE [res |-> Ok(IF frame.last_frame
                                   THEN Some(token) ELSE None),
                      rx |-> [rx EXCEPT ![token] =
                                RxTransfer(rx_transfer.transfer_metadata,
                                           upd.transport_metadata,
                                           rx_transfer.payload
                                           \o frame.payload)]]

\* A new_transfer that never hands out a token.
new_transfer_without_token(rx, frame, metadata) ==
    LET token == hash_metadata(frame.metadata)
        upd == update_rx_metadata(RxMetadata_default, metadata, frame)
    IN  IF token \in DOMAIN rx
          THEN [res |-> Err("AlreadyExists"), rx |-> rx]
          ELSE [res |-> Ok(None),
                rx |-> Insert(rx, token,
                              RxTransfer(frame.metadata,
                                         upd.transport_metadata,
                                         frame.payload))]

\* new_transfer: [res, rx]
new_transfer(rx, frame, metadata) ==
    LET token == hash_metadata(frame.metadata)
        upd == update_rx_metadata(RxMetadata_default, metadata, frame)
    IN  IF token \in DOMAIN rx
          THEN [res |-> Err("AlreadyExists"), rx |-> rx]
        ELSE IF upd.res.tag = "Err"
          THEN [res |-> upd.res, rx |-> rx]
        ELSE [res |-> Ok(IF frame.last_frame THEN Some(token) ELSE None),
              rx |-> Insert(rx, token,
                            RxTransfer(frame.metadata, upd.transport_metadata,
                                       frame.payload))]

\* A token access that treats a TimedOut entry like an absent one.
with_rx_transfer_hides_timeout(rx, token) ==
    IF token \in DOMAIN rx /\ rx[token].status = "Active"
      THEN [res |-> Ok(None), rx |-> rx,
            cb |-> Some([metadata |-> rx[token].transfer_metadata,
                         payload |-> rx[token].payload])]
      ELSE [res |-> Err("InvalidToken"), rx |-> rx, cb |-> None]

\* with_rx_transfer: [res, rx, cb]; cb is the arguments the callback was
\* called with, None when it was not called.
with_rx_transfer(rx, token) ==
    IF token \notin DOMAIN rx
      THEN [res |-> Err("InvalidToken"), rx |-> rx, cb |-> None]
    ELSE IF rx[token].status = "TimedOut"
      THEN [res |-> Err("TransferTimeout"), rx |-> rx, cb |-> None]
    ELSE [res |-> Ok(None), rx |-> rx,
          cb |-> Some([metadata |-> rx[token].transfer_metadata,
                       payload |-> rx[token].payload])]

\* A cancel that marks the entry TimedOut instead of removing it.
cancel_marks_timed_out(map, token) ==
    IF token \in DOMAIN map
      THEN [res |-> Ok(None), map |-> [map EXCEPT ![token] = TimedOut]]
      ELSE [res |-> Err("InvalidToken"), map |-> map]

\* A cancel that refuses every token.
cancel_refused(map, token) == [res |-> Err("InvalidToken"), map |-> map]

\* cancel_rx_transfer, cancel_tx_transfer: [res, map]
cancel_transfer(map, token) ==
    IF token \in DOMAIN map
      THEN [res |-> Ok(None), map |-> Remove(map, token)]
      ELSE [res |-> Err("InvalidToken"), map |-> map]

Zeros(n) == [i \in 1 .. n |-> 0]

\* A create_transmission that keeps a zeroed entry when the callback fails.
create_transmission_reserving(tx, requested_buffer_size, metadata, fill) ==
    LET token == hash_metadata(metadata)
        size == get_crc_padded_size(requested_buffer_size)
        stored == Insert(tx, token,
                         TxTransfer(metadata, TxMetadata_default, 0,
                                    Zeros(size)))
    IN  IF token \in DOMAIN tx
          THEN [res |-> Err("AlreadyExists"), tx |-> tx, panic |-> FALSE,
                cb_invoked |-> FALSE, user_len |-> 0]
        ELSE IF fill.res = "Err"
          THEN [res |-> Err("UserError"), tx |-> stored, panic |-> FALSE,
                cb_invoked |-> TRUE, user_len |-> 0]
        ELSE [res |-> Ok(Some(token)), tx |-> stored, panic |-> FALSE,
              cb_invoked |-> TRUE, user_len |-> 0]

\* The fill callback `cb(&mut buf[0..requested_buffer_size])` writes
\* fill.data over the slice it is given and returns fill.res: Ok(consumed),
\* with consumed in fill.consumed, or an error.
\* create_transmission: [res, tx, panic, cb_invoked, user_len]
create_transmission(tx, requested_buffer_size, metadata, fill) ==
    LET token == hash_metadata(metadata)
        final_buf_size == get_crc_padded_size(requested_buffer_size)
        buf == fill.data \o Zeros(final_buf_size - requested_buffer_size)
        consumed == Min(Len(buf), fill.consumed)
        crc == process_tx_crc(buf, consumed)
    IN  IF token \in DOMAIN tx
          THEN [res |-> Err("AlreadyExists"), tx |-> tx, panic |-> FALSE,
                cb_invoked |-> FALSE, user_len |-> 0]
        ELSE IF fill.res = "Err"
          THEN [res |-> Err("UserError"), tx |-> tx, panic |-> FALSE,
                cb_invoked |-> TRUE, user_len |-> 0]
        ELSE IF crc.panic \/ crc.len > Len(buf)
          THEN [res |-> Err("panic"), tx |-> tx, panic |-> TRUE,
                cb_invoked |-> TRUE, user_len |-> 0]
        ELSE [res |-> Ok(Some(token)),
              tx |-> Insert(tx, token,
                            TxTransfer(metadata, TxMetadata_default, 0,
                                       SliceTo(crc.buffer, crc.len))),
              panic |-> FALSE, cb_invoked |-> TRUE, user_len |-> consumed]

\* transmit with a cursor that moves backwards.
transmit_backwards(tx, token, node_id, timestamp) ==
    IF token \notin DOMAIN tx
      THEN [res |-> Err("InvalidToken"), tx |-> tx,
            frame_out |-> [res |-> Err("InvalidHandling")]]
    ELSE IF tx[token].status = "TimedOut"
      THEN [res |-> Err("TransferTimeout"), tx |-> tx,
            frame_out |-> [res |-> Err("InvalidHandling")]]
    ELSE
      LET transfer == tx[token]
          out == Can_transmit_frame(transfer.transfer_metadata,
                                    transfer.transport_metadata,
                                    SliceFrom(transfer.payload, 0),
                                    node_id, timestamp)
      IN  [res |-> Ok(Some(token)),
           tx |-> [tx EXCEPT ![token] =
                     TxTransfer(transfer.transfer_metadata,
                                out.transport_metadata,
                                IF transfer.consumed > 0 THEN 0 ELSE 7,
                                transfer.payload)],
           frame_out |-> out]

\* transmit, with the callback that Node::transmit_frame passes: it calls
\* the codec and returns the bytes consumed, 0 when the codec failed.
\* [res, tx, frame_out]; frame_out is the codec's result.
transmit(tx, token, node_id, timestamp) ==
    IF token \notin DOMAIN tx
      THEN [res |-> Err("InvalidToken"), tx |-> tx,
            frame_out |-> [res |-> Err("InvalidHandling")]]
    ELSE IF tx[token].status = "TimedOut"
      THEN [res |-> Err("TransferTimeout"), tx |-> tx,
            frame_out |-> [res |-> Err("InvalidHandling")]]
    ELSE
      LET transfer == tx[token]
          out == Can_transmit_frame(transfer.transfer_metadata,
                                    transfer.transport_metadata,
                                    SliceFrom(transfer.payload,
                                              transfer.consumed),
                                    node_id, timestamp)
          consumed == transfer.consumed + out.consumed
      IN  IF consumed >= Len(transfer.payload)
            THEN [res |-> Ok(None), tx |-> Remove(tx, token),
                  frame_out |-> out]
            ELSE [res |-> Ok(Some(token)),
                  tx |-> [tx EXCEPT ![token] =
                            TxTransfer(transfer.transfer_metadata,
                                       out.transport_metadata,
                                       consumed, transfer.payload)],
                  frame_out |-> out]

\* An expiry test that also fires when the age equals the timeout.
timestamp_expired_inclusive(timeout, now, then) ==
    is_some(then) /\ now - unwrap(then) >= timeout

\* timestamp_expired (transfer/manager.rs)
timestamp_expired(timeout, now, then) ==
    is_some(then) /\ now - unwrap(then) > timeout

\* One of the two loops of update_transfers.
sweep(map, timestamp, timeout) ==
    [k \in DOMAIN map |->
        IF map[k].status = "Active"
           /\ timestamp_expired(timeout, timestamp,
                                Some(map[k].transfer_metadata.timestamp))
          THEN TimedOut
          ELSE map[k]]

-----------------------------------------------------------------------------
(* Inputs.                                                                 *)

LocalIds == {None, Some(1)}

\* The n bytes a fill callback writes.
UserData(n) == [i \in 1 .. n |-> (i * 37 + 5) % 256]

TxSizes == {2, 13}

Fills(n) ==
    {[data |-> UserData(n), res |-> "Ok", consumed |-> c] : c \in {n, n + 1}}
    \cup {[data |-> UserData(n), res |-> "Err", consumed |-> 0]}

TxMetas(timestamp) ==
    {TransferMetadata(timestamp, 4, kind, 1, remote, transfer_id) :
        kind \in {"Message", "Request"}, remote \in {None, Some(2)},
        transfer_id \in {0}}

Timeouts == {0}

-----------------------------------------------------------------------------
(* State.                                                                  *)

Idle == [stage |-> "idle"]

Init ==
    /\ id \in LocalIds
    /\ rx_transfers = EmptyMap
    /\ tx_transfers = EmptyMap
    /\ clock = 0
    /\ panicked = FALSE
    /\ last = [op |-> "new"]
    /\ tx_input = EmptyMap
    /\ rx_log = EmptyMap
    /\ wire = Idle

\* An Active entry of `map` holds a transfer with this metadata, timestamp
\* aside.
StoredEqual(map, metadata) ==
    \E k \in DOMAIN map :
        /\ map[k].status = "Active"
        /\ Identity(map[k].transfer_metadata) = Identity(metadata)

-----------------------------------------------------------------------------
(* Operations on the TX side.  Each *_op states the operation's effect on  *)
(* every variable but `wire`.                                              *)

\* MapTransferManager::create_transmission(requested, &metadata, cb)
create_transmission_op(metadata, requested, fill) ==
    \E r \in {create_transmission(tx_transfers, requested, metadata, fill)},
       token \in {hash_metadata(metadata)} :
        /\ ~panicked
        /\ \/ Cardinality(DOMAIN tx_transfers) < MaxTx
           \/ token \in DOMAIN tx_transfers
           \/ StoredEqual(tx_transfers, metadata)
        /\ tx_transfers' = r.tx
        /\ panicked' = r.panic
        /\ tx_input' =
             IF r.res.tag = "Ok"
               THEN Insert(tx_input, token,
                           [metadata |-> metadata,
                            data |-> SliceTo(fill.data \o Zeros(CRC_SIZE),
                                             r.user_len),
                            sent |-> 0])
               ELSE tx_input
        /\ last' = [op |-> "create_transmission", metadata |-> metadata,
                    requested |-> requested, fill |-> fill, res |-> r.res,
                    existed |-> StoredEqual(tx_transfers, metadata),
                    occupied |-> token \in DOMAIN tx_transfers,
                    cb_invoked |-> r.cb_invoked,
                    mutated |-> r.tx # tx_transfers]
        /\ UNCHANGED <<id, rx_transfers, clock, rx_log>>

\* Node::transmit_frame(token, timestamp)
transmit_frame_op(token) ==
    \E r \in {transmit(tx_transfers, token, id, clock)} :
    LET codec_failed == r.res.tag = "Ok" /\ r.frame_out.res.tag = "Err"
        after == IF codec_failed /\ is_some(r.res.token)
                   THEN cancel_transfer(r.tx, unwrap(r.res.token)).map
                   ELSE r.tx
        result == IF r.res.tag = "Err" THEN r.res
                  ELSE IF codec_failed THEN r.frame_out.res
                  ELSE r.res
        emitted == result.tag = "Ok"
    IN  /\ ~panicked
        /\ tx_transfers' = after
        /\ tx_input' = [k \in (DOMAIN tx_input) \cap (DOMAIN after) |->
                          IF k = token /\ emitted
                            THEN [tx_input[k] EXCEPT !.sent = @ + 1]
                            ELSE tx_input[k]]
        /\ last' = [op |-> "transmit_frame", token |-> token,
                    res |-> result,
                    frame |-> IF emitted THEN Some(r.frame_out.frame)
                              ELSE None,
                    index |-> IF token \in DOMAIN tx_input
                                THEN tx_input[token].sent ELSE 0,
                    input |-> IF token \in DOMAIN tx_input
                                THEN Some(tx_input[token]) ELSE None,
                    stored |-> token \in DOMAIN after]
        /\ UNCHANGED <<id, rx_transfers, clock, panicked, rx_log>>

\* A cancel_tx_transfer that removes the token from the RX map as well.
cancel_both_op(token) ==
    \E r \in {cancel_transfer(tx_transfers, token)} :
        /\ ~panicked
        /\ tx_transfers' = r.map
        /\ rx_transfers' = Remove(rx_transfers, token)
        /\ tx_input' = [k \in (DOMAIN tx_input) \cap (DOMAIN r.map) |->
                          tx_input[k]]
        /\ rx_log' = [k \in (DOMAIN rx_log) \ {token} |-> rx_log[k]]
        /\ last' = [op |-> "cancel_tx_transfer", token |-> token,
                    res |-> r.res]
        /\ UNCHANGED <<id, clock, panicked>>

\* MapTransferManager::cancel_tx_transfer(token)
cancel_tx_transfer_op(token) ==
    \E r \in {cancel_transfer(tx_transfers, token)} :
        /\ ~panicked
        /\ tx_transfers' = r.map
        /\ tx_input' = [k \in (DOMAIN tx_input) \cap (DOMAIN r.map) |->
                          tx_input[k]]
        /\ last' = [op |-> "cancel_tx_transfer", token |-> token,
                    res |-> r.res]
        /\ UNCHANGED <<id, rx_transfers, clock, panicked, rx_log>>

\* MapTransferManager::update_transfers(timestamp, timeout), called with the
\* current time.
update_transfers_op(timeout) ==
    /\ ~panicked
    /\ tx_transfers' = sweep(tx_transfers, clock, timeout)
    /\ rx_transfers' = sweep(rx_transfers, clock, timeout)
    /\ last' = [op |-> "update_transfers", timestamp |-> clock,
                timeout |-> timeout]
    /\ UNCHANGED <<id, clock, panicked, tx_input, rx_log>>

\* Time passes.
Tick ==
    /\ ~panicked
    /\ clock < MaxTime
    /\ clock' = clock + 1
    /\ last' = [op |-> "tick"]
    /\ UNCHANGED <<id, rx_transfers, tx_transfers, panicked,
                   tx_input, rx_log, wire>>

CreateTransmission ==
    \E metadata \in TxMetas(clock), requested \in TxSizes :
        \E fill \in Fills(requested) :
            /\ create_transmission_op(metadata, requested, fill)
            /\ UNCHANGED wire

TransmitFrame ==
    \E token \in Tokens : transmit_frame_op(token) /\ UNCHANGED wire

CancelTxTransfer ==
    \E token \in Tokens : cancel_tx_transfer_op(token) /\ UNCHANGED wire

UpdateTransfers ==
    \E timeout \in Timeouts : update_transfers_op(timeout) /\ UNCHANGED wire

NextTx ==
    \/ CreateTransmission
    \/ TransmitFrame
    \/ CancelTxTransfer
    \/ UpdateTransfers
    \/ Tick

SpecTx == Init /\ [][NextTx]_vars

-----------------------------------------------------------------------------
(* Operations on the RX side.                                              *)

\* Node::try_receive_frame: [res, rx, path].  `path` names the branch taken:
\* "codec" (rx_process_frame failed), "filter" (the addressing filter
\* returned), "append", "create", or "none" (neither appended nor created).
\* The managers work on the map in place, so whatever append_frame or
\* new_transfer left in it stays, also when they return an error.
try_receive_frame(rx, node_id, raw) ==
    LET p == rx_process_frame(raw)
        frame == p.frame
        destination == destination_node_id_of(frame.metadata)
        appended == append_frame(rx, frame, p.frame_metadata)
        created == new_transfer(rx, frame, p.frame_metadata)
    IN  IF p.res.tag = "Err"
          THEN [res |-> p.res, rx |-> rx, path |-> "codec"]
        ELSE IF is_some(destination)
                /\ frame.metadata.transfer_kind = "Message"
          THEN [res |-> Err("MessageWithRemoteId"), rx |-> rx,
                path |-> "filter"]
        ELSE IF is_some(destination)
                /\ (~is_some(node_id) \/ unwrap(destination) # unwrap(node_id))
          THEN [res |-> Ok(None), rx |-> rx, path |-> "filter"]
        ELSE IF appended.res.tag = "Ok"
          THEN [res |-> appended.res, rx |-> appended.rx, path |-> "append"]
        ELSE IF appended.res.err = "NoSpace"
          THEN [res |-> Ok(None), rx |-> appended.rx, path |-> "none"]
        ELSE IF appended.res.err = "DoesNotExist"
          THEN IF ~frame.first_frame
                 THEN [res |-> Err("NewSessionNoStart"), rx |-> appended.rx,
                       path |-> "none"]
               ELSE IF created.res.tag = "Ok"
                 THEN [res |-> created.res, rx |-> created.rx,
                       path |-> "create"]
               ELSE [res |-> Ok(None), rx |-> created.rx, path |-> "none"]
        ELSE IF appended.res.err = "TimedOut"
          THEN [res |-> Err("Timeout"), rx |-> appended.rx, path |-> "none"]
        ELSE [res |-> appended.res, rx |-> appended.rx, path |-> "none"]

\* The token of the entry a raw frame belongs to, when the codec accepts it.
FrameToken(raw) ==
    LET p == rx_process_frame(raw)
    IN  IF p.res.tag = "Ok" THEN Some(hash_metadata(p.frame.metadata))
        ELSE None

\* The bytes of a raw frame before its tail byte.
FrameBody(raw) ==
    IF raw.payload = <<>> THEN <<>>
    ELSE SliceTo(raw.payload, Len(raw.payload) - 1)

try_receive_frame_op(raw) ==
    \E r \in {try_receive_frame(rx_transfers, id, raw)} :
      \E t \in {FrameToken(raw)} :
        /\ ~panicked
        /\ Cardinality(DOMAIN r.rx) <= MaxRx
        /\ \A k \in DOMAIN r.rx :
              r.rx[k].status = "Active" => Len(r.rx[k].payload) <= MaxRxLen
        /\ rx_transfers' = r.rx
        /\ rx_log' =
             IF r.path = "create"
               THEN Insert(rx_log, unwrap(t),
                           [frames |-> 1, bytes |-> FrameBody(raw),
                            issued |-> is_some(r.res.token),
                            in_order |-> TRUE])
             ELSE IF r.path = "append"
               THEN [rx_log EXCEPT ![unwrap(t)] =
                        [frames |-> @.frames + 1,
                         bytes |-> @.bytes \o FrameBody(raw),
                         issued |-> @.issued \/ is_some(r.res.token),
                         in_order |-> @.in_order /\ ~@.issued]]
             ELSE rx_log
        /\ last' = [op |-> "try_receive_frame", frame |-> raw,
                    res |-> r.res, path |-> r.path,
                    mutated |-> r.rx # rx_transfers,
                    before |-> IF is_some(t)
                                  /\ IsActive(rx_transfers, unwrap(t))
                                 THEN Some(rx_transfers[unwrap(t)])
                                 ELSE None]
        /\ UNCHANGED <<id, tx_transfers, clock, panicked, tx_input>>

\* MapTransferManager::with_rx_transfer(token, cb)
with_rx_transfer_op(token) ==
    \E r \in {with_rx_transfer(rx_transfers, token)} :
        /\ ~panicked
        /\ rx_transfers' = r.rx
        /\ rx_log' = [k \in (DOMAIN rx_log) \cap (DOMAIN r.rx) |-> rx_log[k]]
        /\ last' = [op |-> "with_rx_transfer", token |-> token,
                    res |-> r.res, cb |-> r.cb,
                    received |-> IF token \in DOMAIN rx_log
                                   THEN Some(rx_log[token]) ELSE None]
        /\ UNCHANGED <<id, tx_transfers, clock, panicked, tx_input>>

\* MapTransferManager::cancel_rx_transfer(token)
cancel_rx_transfer_op(token) ==
    \E r \in {cancel_transfer(rx_transfers, token)} :
        /\ ~panicked
        /\ rx_transfers' = r.map
        /\ rx_log' = [k \in (DOMAIN rx_log) \cap (DOMAIN r.map) |->
                        rx_log[k]]
        /\ last' = [op |-> "cancel_rx_transfer", token |-> token,
                    res |-> r.res]
        /\ UNCHANGED <<id, tx_transfers, clock, panicked, tx_input>>

-----------------------------------------------------------------------------
(* Inbound frames.                                                         *)

\* A nine-byte payload, sent as two frames.
RxUser == UserData(9)
\* The transfer CRC as the specification orders it: low byte, high byte.
crc_bytes(data) ==
    LET crc == crc_digest(crc16ccitt_false, data)
    IN  <<crc % 256, crc \div 256>>

RxPayloads ==
    { SliceTo(RxUser, 2) \o <<TailByte_new(TRUE, TRUE, TRUE, 0)>>,
      SliceTo(RxUser, 7) \o <<TailByte_new(TRUE, FALSE, TRUE, 0)>>,
      SliceFrom(RxUser, 7) \o crc_bytes(RxUser)
          \o <<TailByte_new(FALSE, TRUE, FALSE, 0)>>,
      SliceFrom(RxUser, 7) \o <<0, 0>>
          \o <<TailByte_new(FALSE, TRUE, FALSE, 0)>>,
      SliceFrom(RxUser, 7) \o crc_bytes(RxUser)
          \o <<TailByte_new(FALSE, TRUE, TRUE, 0)>>,
      <<>>,
      SliceTo(RxUser, 2) \o <<TailByte_new(TRUE, TRUE, FALSE, 0)>>,
      SliceTo(RxUser, 2) \o <<TailByte_new(TRUE, FALSE, TRUE, 0)>> }

RxIds ==
    { CanMessageId_new(4, 1, Some(1)),
      CanMessageId_new(4, 1, None),
      CanServiceId_new(4, TRUE, 1, 1, 2),
      CanServiceId_new(4, TRUE, 1, 2, 1),
      CanMessageId_new(4, 1, Some(1)) + Pow2(23) }

RxFrames(timestamp) ==
    {CanFrame(timestamp, raw_id, payload) :
        raw_id \in RxIds, payload \in RxPayloads}

TryReceiveFrame ==
    \E raw \in RxFrames(clock) : try_receive_frame_op(raw) /\ UNCHANGED wire

WithRxTransfer ==
    \E token \in Tokens : with_rx_transfer_op(token) /\ UNCHANGED wire

CancelRxTransfer ==
    \E token \in Tokens : cancel_rx_transfer_op(token) /\ UNCHANGED wire

NextRx ==
    \/ TryReceiveFrame
    \/ WithRxTransfer
    \/ CancelRxTransfer
    \/ UpdateTransfers
    \/ Tick

SpecRx == Init /\ [][NextRx]_vars

-----------------------------------------------------------------------------
(* The round trip: one transfer is created, drained frame by frame, every   *)
(* produced frame is fed in order to try_receive_frame of a receiver whose  *)
(* RX map is empty, and the completed transfer is read.  The receiver is    *)
(* the RX side of the same manager: the maps of the two directions are      *)
(* disjoint, and the codec never reads the receiver's id.                   *)

\* Transfers that are valid to send: a broadcast message, and a request to
\* node 2 from a node that has an id.
LoopMetas(timestamp) ==
    {m \in TxMetas(timestamp) :
        \/ m.transfer_kind = "Message" /\ ~is_some(m.remote_node_id)
        \/ m.transfer_kind = "Request" /\ is_some(m.remote_node_id)
           /\ is_some(id)}

LoopFills(n) == {f \in Fills(n) : f.res = "Ok" /\ f.consumed = n}

LoopCreate ==
    /\ wire.stage = "idle"
    /\ tx_transfers = EmptyMap
    /\ rx_transfers = EmptyMap
    /\ \E metadata \in LoopMetas(clock), requested \in TxSizes :
         \E fill \in LoopFills(requested) :
            /\ is_some(id) \/ requested <= 7
            /\ create_transmission_op(metadata, requested, fill)
            /\ wire' = IF last'.res.tag = "Ok"
                         THEN [stage |-> "sending",
                               token |-> unwrap(last'.res.token),
                               metadata |-> metadata,
                               data |-> fill.data,
                               frames |-> <<>>,
                               results |-> <<>>,
                               read |-> Ok(None),
                               cb |-> None]
                         ELSE Idle

LoopTransmit ==
    /\ wire.stage = "sending"
    /\ transmit_frame_op(wire.token)
    /\ wire' = IF is_some(last'.frame)
                 THEN [wire EXCEPT
                         !.frames = Append(@, unwrap(last'.frame)),
                         !.stage = IF last'.stored THEN "sending"
                                   ELSE "receiving"]
                 ELSE [wire EXCEPT !.stage = "failed"]

LoopReceive ==
    /\ wire.stage = "receiving"
    /\ wire.frames # <<>>
    /\ try_receive_frame_op(Head(wire.frames))
    /\ wire' = [wire EXCEPT !.frames = Tail(@),
                            !.results = Append(@, last'.res)]

\* Every frame was fed: the transfer is read with the token that the last
\* call returned, if it returned one.
LoopRead ==
    /\ wire.stage = "receiving"
    /\ wire.frames = <<>>
    /\ LET result == wire.results[Len(wire.results)]
       IN  IF result.tag = "Ok" /\ is_some(result.token)
             THEN /\ with_rx_transfer_op(unwrap(result.token))
                  /\ wire' = [wire EXCEPT !.stage = "read",
                                          !.read = last'.res,
                                          !.cb = last'.cb]
             ELSE /\ wire' = [wire EXCEPT !.stage = "undelivered"]
                  /\ last' = [op |-> "none"]
                  /\ UNCHANGED <<id, rx_transfers, tx_transfers, clock,
                                 panicked, tx_input, rx_log>>

LoopTick == Tick /\ wire.stage \in {"idle", "sending", "receiving"}

NextLoop ==
    \/ LoopCreate
    \/ LoopTransmit
    \/ LoopReceive
    \/ LoopRead
    \/ LoopTick

SpecLoop == Init /\ [][NextLoop]_vars

-----------------------------------------------------------------------------
(* Properties.                                                             *)

\* The tail byte of an emitted frame.
TailOf(frame) == frame.payload[Len(frame.payload)]

\* C1: round trip.  Once every frame of a valid transfer has been fed to
\* the receiver, the transfer is delivered (the last call returned a token),
\* and reading it yields the input payload byte for byte and metadata whose
\* kind, priority, port_id, transfer_id, source (the sender's id) and
\* destination (the input's remote node) equal the input's.
C1_RoundTrip ==
    /\ wire.stage # "undelivered"
    /\ wire.stage = "read" =>
         /\ wire.read.tag = "Ok"
         /\ is_some(wire.cb)
         /\ unwrap(wire.cb).payload = wire.data
         /\ unwrap(wire.cb).metadata.transfer_kind
              = wire.metadata.transfer_kind
         /\ unwrap(wire.cb).metadata.priority = wire.metadata.priority
         /\ unwrap(wire.cb).metadata.port_id = wire.metadata.port_id
         /\ unwrap(wire.cb).metadata.transfer_id = wire.metadata.transfer_id
         /\ remote_node_id_of(unwrap(wire.cb).metadata) = id
         /\ destination_node_id_of(unwrap(wire.cb).metadata)
              = wire.metadata.remote_node_id

\* C2: the first frame that transmit_frame produces for a transfer has
\* start_of_transfer set in its tail byte, and every later frame has it
\* clear.
C2_StartOfTransferOnFirstFrame ==
    (last.op = "transmit_frame" /\ is_some(last.frame)) =>
        (TailByte_start_of_transfer(TailOf(unwrap(last.frame)))
            <=> (last.index = 0))

\* C3: after a successful with_rx_transfer on a token that try_receive_frame
\* handed out, the transfer is no longer stored, so that a duplicate of the
\* token finds nothing (InvalidToken).
C3_WithRxTransferFrees ==
    (/\ last.op = "with_rx_transfer"
     /\ last.res.tag = "Ok"
     /\ is_some(last.received)
     /\ unwrap(last.received).issued)
    => last.token \notin DOMAIN rx_transfers

\* C4: a transfer of at most 7 user bytes is emitted as exactly one frame,
\* whose payload is the user bytes followed by the tail byte (no CRC bytes).
C4_SingleFrameWithoutCrc ==
    (/\ last.op = "transmit_frame"
     /\ is_some(last.frame)
     /\ is_some(last.input)
     /\ Len(unwrap(last.input).data) <= 7)
    => /\ last.index = 0
       /\ ~last.stored
       /\ FrameBody(unwrap(last.frame)) = unwrap(last.input).data

\* C5: with c the CRC of the user data, process_tx_crc leaves (c mod 256)
\* at buffer[data_size] and (c div 256) at buffer[data_size + 1] and returns
\* data_size + 2: the payload stored by create_transmission is the user
\* data, then the low CRC byte, then the high CRC byte.
C5_CrcLowByteThenHighByte ==
    \A token \in DOMAIN tx_transfers :
        (IsActive(tx_transfers, token) /\ token \in DOMAIN tx_input) =>
            tx_transfers[token].payload
                = tx_input[token].data \o crc_bytes(tx_input[token].data)

\* C6: when a transfer of more than one frame completes, its received bytes
\* end with the CRC of the bytes before it, and the payload handed to the
\* with_rx_transfer callback is the received bytes without the two trailing
\* CRC bytes.
C6_MultiFrameCrcStrippedAndValidated ==
    /\ (/\ last.op = "try_receive_frame"
        /\ last.res.tag = "Ok"
        /\ is_some(last.res.token)
        /\ rx_log[unwrap(last.res.token)].in_order
        /\ rx_log[unwrap(last.res.token)].frames >= 2)
       => LET bytes == rx_log[unwrap(last.res.token)].bytes
              n == Len(bytes)
          IN  /\ n >= CRC_SIZE
              /\ SliceFrom(bytes, n - CRC_SIZE)
                   = crc_bytes(SliceTo(bytes, n - CRC_SIZE))
    /\ (/\ last.op = "with_rx_transfer"
        /\ last.res.tag = "Ok"
        /\ is_some(last.cb)
        /\ is_some(last.received)
        /\ unwrap(last.received).issued
        /\ unwrap(last.received).in_order
        /\ unwrap(last.received).frames >= 2)
       => LET bytes == unwrap(last.received).bytes
          IN  unwrap(last.cb).payload
                = SliceTo(bytes, Len(bytes) - CRC_SIZE)

\* C7: a Request or Response frame that the codec accepts and whose
\* destination differs from the node's id, or that reaches a node without an
\* id, makes try_receive_frame return Ok(None) and leaves the RX and TX maps
\* as they were.
C7_AddressingFilter ==
    (/\ last.op = "try_receive_frame"
     /\ CanId_is_svc(last.frame.id)
     /\ rx_process_frame(last.frame).res.tag = "Ok"
     /\ \/ ~is_some(id)
        \/ CanServiceId_destination_id(last.frame.id) # unwrap(id))
    => /\ last.res = Ok(None)
       /\ ~last.mutated

\* C8: create_transmission with metadata that differs from a stored
\* transfer's at most in timestamp returns AlreadyExists, does not call the
\* fill callback and leaves the TX map as it was.
C8_Deduplication ==
    (last.op = "create_transmission" /\ last.existed)
    => /\ last.res = Err("AlreadyExists")
       /\ ~last.cb_invoked
       /\ ~last.mutated

\* A create_transmission was refused for a transfer stored with an earlier
\* timestamp.
C8_Witness ==
    /\ last.op = "create_transmission"
    /\ last.existed
    /\ last.res = Err("AlreadyExists")
    /\ \E k \in DOMAIN tx_transfers :
          /\ tx_transfers[k].status = "Active"
          /\ Identity(tx_transfers[k].transfer_metadata)
               = Identity(last.metadata)
          /\ tx_transfers[k].transfer_metadata.timestamp
               # last.metadata.timestamp

\* C9: transfers are told apart by their non-timestamp metadata and not by
\* the hash alone: create_transmission answers AlreadyExists only for
\* metadata equal to the stored transfer's, and a frame is appended only to
\* a transfer whose metadata equals the frame's.
C9_FullEqualityNotHashAlone ==
    /\ (/\ last.op = "create_transmission"
        /\ last.res = Err("AlreadyExists")
        /\ IsActive(tx_transfers, hash_metadata(last.metadata)))
       => Identity(tx_transfers[hash_metadata(last.metadata)]
                       .transfer_metadata)
            = Identity(last.metadata)
    /\ (/\ last.op = "try_receive_frame"
        /\ last.path = "append"
        /\ is_some(last.before))
       => Identity(unwrap(last.before).transfer_metadata)
            = Identity(rx_process_frame(last.frame).frame.metadata)

\* C10: the toggle bits of the frames that successive transmit_frame calls
\* produce for one transfer are true, false, true, ...: the frame with index
\* i (from 0) carries toggle = (i is even).
C10_ToggleAlternation ==
    (last.op = "transmit_frame" /\ is_some(last.frame)) =>
        (TailByte_toggle(TailOf(unwrap(last.frame)))
            <=> (last.index % 2 = 0))

\* The third frame of a transfer was produced, with its toggle bit set.
C10_Witness ==
    /\ last.op = "transmit_frame"
    /\ is_some(last.frame)
    /\ last.index = 2
    /\ TailByte_toggle(TailOf(unwrap(last.frame)))

\* C11: a frame for a stored Active RX transfer whose toggle bit equals the
\* transfer's stored toggle is refused with InvalidFrameOrdering and changes
\* nothing; a frame with the opposite toggle is appended and the stored
\* toggle becomes the frame's.  The frames a transfer has accepted therefore
\* carry the toggles true, false, true, ...
C11_RxToggleCheck ==
    /\ (/\ last.op = "try_receive_frame"
        /\ is_some(last.before)
        /\ last.path # "filter")
       => LET token == unwrap(FrameToken(last.frame))
              toggle == TailByte_toggle(TailOf(last.frame))
          IN  IF toggle = unwrap(last.before).transport_metadata.toggle_bit
                THEN /\ last.res = Err("InvalidFrameOrdering")
                     /\ ~last.mutated
                ELSE /\ last.res.tag = "Ok"
                     /\ last.path = "append"
                     /\ rx_transfers[token].transport_metadata.toggle_bit
                          = toggle
    /\ (/\ last.op = "try_receive_frame"
        /\ last.path \in {"create", "append"})
       => (TailByte_toggle(TailOf(last.frame))
             <=> (rx_log[unwrap(FrameToken(last.frame))].frames % 2 = 1))

\* The second frame of a transfer repeated the toggle of the first and was
\* refused.
C11_Witness ==
    /\ last.op = "try_receive_frame"
    /\ is_some(last.before)
    /\ last.res = Err("InvalidFrameOrdering")
    /\ unwrap(last.before).transport_metadata.toggle_bit
    /\ TailByte_toggle(TailOf(last.frame))

-----------------------------------------------------------------------------
(* The codec's frame validation on its own: a raw frame is drawn, and       *)
(* rx_process_frame is applied to it.                                       *)

CodecPayloads ==
    {<<>>}
    \cup {SliceTo(RxUser, n) \o <<TailByte_new(sot, eot, toggle, 0)>> :
            n \in {0, 2, 7}, sot \in BOOLEAN, eot \in BOOLEAN,
            toggle \in BOOLEAN}

CodecFrames ==
    {CanFrame(0, raw_id, payload) :
        raw_id \in RxIds, payload \in CodecPayloads}

InitCodec ==
    /\ id \in LocalIds
    /\ rx_transfers = EmptyMap
    /\ tx_transfers = EmptyMap
    /\ clock = 0
    /\ panicked = FALSE
    /\ last = [op |-> "new"]
    /\ tx_input = EmptyMap
    /\ rx_log = EmptyMap
    /\ wire \in {[stage |-> "codec", frame |-> raw] : raw \in CodecFrames}

RxProcessFrame ==
    /\ wire.stage = "codec"
    /\ last.op = "new"
    /\ last' = [op |-> "rx_process_frame", frame |-> wire.frame,
                res |-> rx_process_frame(wire.frame).res]
    /\ UNCHANGED <<id, rx_transfers, tx_transfers, clock, panicked,
                   tx_input, rx_log, wire>>

NextCodec == RxProcessFrame

SpecCodec == InitCodec /\ [][NextCodec]_vars

\* What a raw frame's tail byte says; a frame without bytes has no tail
\* byte and says nothing.
HasTail(raw) == raw.payload # <<>>
StartSet(raw) == HasTail(raw) /\ TailByte_start_of_transfer(TailOf(raw))
EndSet(raw) == HasTail(raw) /\ TailByte_end_of_transfer(TailOf(raw))
ToggleSet(raw) == HasTail(raw) /\ TailByte_toggle(TailOf(raw))
AnonMessage(raw) == ~CanId_is_svc(raw.id) /\ CanMessageId_is_anon(raw.id)

StartWithoutToggle(raw) == StartSet(raw) /\ ~ToggleSet(raw)
NonLastShort(raw) ==
    HasTail(raw) /\ ~EndSet(raw) /\ Len(raw.payload) < MTU_SIZE
AnonMultiFrame(raw) ==
    HasTail(raw) /\ AnonMessage(raw) /\ ~(StartSet(raw) /\ EndSet(raw))

\* C12, as stated: each of the four errors is returned exactly when its own
\* condition holds: TransferStartMissingToggle iff start_of_transfer is set
\* and toggle clear, NonLastUnderUtilization iff end_of_transfer is clear
\* and the payload is shorter than 8, FrameEmpty iff the payload is empty,
\* AnonNotSingleFrame iff the frame is an anonymous message that is not
\* both start and end.
C12_TailByteValidationAsStated ==
    last.op = "rx_process_frame" =>
        /\ last.res = Err("TransferStartMissingToggle")
             <=> StartWithoutToggle(last.frame)
        /\ last.res = Err("NonLastUnderUtilization")
             <=> NonLastShort(last.frame)
        /\ last.res = Err("FrameEmpty") <=> ~HasTail(last.frame)
        /\ last.res = Err("AnonNotSingleFrame")
             <=> AnonMultiFrame(last.frame)

\* C12, amended: the checks are made in order and the first that fails
\* decides.  FrameEmpty iff the payload is empty; TransferStartMissingToggle
\* iff start_of_transfer is set and toggle clear; NonLastUnderUtilization
\* iff that check passed, end_of_transfer is clear and the payload is
\* shorter than 8; AnonNotSingleFrame iff both checks passed and the frame
\* is an anonymous message that is not both start and end.
C12_TailByteValidationInOrder ==
    last.op = "rx_process_frame" =>
        /\ last.res = Err("FrameEmpty") <=> ~HasTail(last.frame)
        /\ last.res = Err("TransferStartMissingToggle")
             <=> StartWithoutToggle(last.frame)
        /\ last.res = Err("NonLastUnderUtilization")
             <=> (~StartWithoutToggle(last.frame) /\ NonLastShort(last.frame))
        /\ last.res = Err("AnonNotSingleFrame")
             <=> (/\ ~StartWithoutToggle(last.frame)
                  /\ ~NonLastShort(last.frame)
                  /\ AnonMultiFrame(last.frame))

\* A short frame that is not the last and starts a transfer without toggle
\* was refused for the missing toggle.
C12_Witness ==
    /\ last.op = "rx_process_frame"
    /\ StartWithoutToggle(last.frame)
    /\ NonLastShort(last.frame)
    /\ last.res = Err("TransferStartMissingToggle")

\* C13: every stored TX transfer has 0 <= consumed <= payload.len(), and no
\* step makes the consumed cursor of a transfer that stays stored smaller.
C13_CursorWithinPayload ==
    /\ [](\A k \in DOMAIN tx_transfers :
            tx_transfers[k].status = "Active" =>
                /\ 0 <= tx_transfers[k].consumed
                /\ tx_transfers[k].consumed <= Len(tx_transfers[k].payload))
    /\ [][\A k \in (DOMAIN tx_transfers) \cap (DOMAIN tx_transfers') :
            (tx_transfers[k].status = "Active"
             /\ tx_transfers'[k].status = "Active")
            => tx_transfers'[k].consumed >= tx_transfers[k].consumed]_vars

\* A transfer is stored with its cursor after the second frame.
C13_Witness ==
    \E k \in DOMAIN tx_transfers :
        /\ tx_transfers[k].status = "Active"
        /\ tx_transfers[k].consumed = 14
        /\ Len(tx_transfers[k].payload) = 15

\* C14: a transmit_frame call on a stored Active TX transfer in which the
\* codec returns a frame either frees the transfer (it is complete) or
\* leaves it stored with a strictly larger consumed cursor.
C14_CursorStrictlyAdvances ==
    [][(/\ last'.op = "transmit_frame"
        /\ is_some(last'.frame)
        /\ IsActive(tx_transfers, last'.token))
       => \/ last'.token \notin DOMAIN tx_transfers'
          \/ /\ IsActive(tx_transfers', last'.token)
             /\ tx_transfers'[last'.token].consumed
                  > tx_transfers[last'.token].consumed]_vars

\* The first frame of a three-frame transfer was produced and the transfer
\* is stored with its cursor at 7.
C14_Witness ==
    /\ last.op = "transmit_frame"
    /\ is_some(last.frame)
    /\ last.index = 0
    /\ IsActive(tx_transfers, last.token)
    /\ tx_transfers[last.token].consumed = 7

-----------------------------------------------------------------------------
(* The manager with both directions in use: one message is sent while       *)
(* frames of one message arrive, transfers are cancelled and read, and the  *)
(* housekeeping sweep runs as time passes.  `wire` remembers the successful *)
(* cancel made by the step before, if that is what the step before did.     *)

MgrTxMetas(timestamp) == {TransferMetadata(timestamp, 4, "Message", 1, None, 0)}

MgrPayloads ==
    { SliceTo(RxUser, 2) \o <<TailByte_new(TRUE, TRUE, TRUE, 0)>>,
      SliceTo(RxUser, 7) \o <<TailByte_new(TRUE, FALSE, TRUE, 0)>>,
      SliceFrom(RxUser, 7) \o crc_bytes(RxUser)
          \o <<TailByte_new(FALSE, TRUE, FALSE, 0)>> }

MgrFrames(timestamp) ==
    {CanFrame(timestamp, CanMessageId_new(4, 1, Some(1)), payload) :
        payload \in MgrPayloads}

MgrTimeouts == {0, 1}

Cancelled(l) ==
    IF l.op \in {"cancel_rx_transfer", "cancel_tx_transfer"}
       /\ l.res.tag = "Ok"
      THEN [stage |-> "cancelled", op |-> l.op, token |-> l.token]
      ELSE Idle

MgrCreateTransmission ==
    \E metadata \in MgrTxMetas(clock), requested \in TxSizes :
        \E fill \in LoopFills(requested) :
            /\ create_transmission_op(metadata, requested, fill)
            /\ wire' = Cancelled(last)

MgrTransmitFrame ==
    \E token \in Tokens : transmit_frame_op(token) /\ wire' = Cancelled(last)

MgrCancelTxTransfer ==
    \E token \in Tokens :
        cancel_tx_transfer_op(token) /\ wire' = Cancelled(last)

MgrTryReceiveFrame ==
    \E raw \in MgrFrames(clock) :
        try_receive_frame_op(raw) /\ wire' = Cancelled(last)

MgrWithRxTransfer ==
    \E token \in Tokens : with_rx_transfer_op(token) /\ wire' = Cancelled(last)

MgrCancelRxTransfer ==
    \E token \in Tokens :
        cancel_rx_transfer_op(token) /\ wire' = Cancelled(last)

MgrUpdateTransfers ==
    \E timeout \in MgrTimeouts :
        update_transfers_op(timeout) /\ wire' = Cancelled(last)

MgrTick ==
    /\ ~panicked
    /\ clock < MaxTime
    /\ clock' = clock + 1
    /\ last' = [op |-> "tick"]
    /\ wire' = Cancelled(last)
    /\ UNCHANGED <<id, rx_transfers, tx_transfers, panicked,
                   tx_input, rx_log>>

NextManager ==
    \/ MgrCreateTransmission
    \/ MgrTransmitFrame
    \/ MgrCancelTxTransfer
    \/ MgrTryReceiveFrame
    \/ MgrWithRxTransfer
    \/ MgrCancelRxTransfer
    \/ MgrUpdateTransfers
    \/ MgrTick

SpecManager == Init /\ [][NextManager]_vars

\* C15: a cancel_rx_transfer (cancel_tx_transfer) that succeeds removes the
\* transfer; a cancel_rx_transfer (cancel_tx_transfer) with the same token
\* right after returns InvalidToken and changes neither map.
C15_CancelIsFinal ==
    [][/\ (last'.op = "cancel_rx_transfer" /\ last'.res.tag = "Ok")
          => last'.token \notin DOMAIN rx_transfers'
       /\ (last'.op = "cancel_tx_transfer" /\ last'.res.tag = "Ok")
          => last'.token \notin DOMAIN tx_transfers'
       /\ (/\ last.op \in {"cancel_rx_transfer", "cancel_tx_transfer"}
           /\ last.res.tag = "Ok"
           /\ last'.op = last.op
           /\ last'.token = last.token)
          => /\ last'.res = Err("InvalidToken")
             /\ rx_transfers' = rx_transfers
             /\ tx_transfers' = tx_transfers]_vars

\* An RX transfer was cancelled, and the cancel repeated with the same token
\* was refused.
C15_Witness ==
    /\ last.op = "cancel_rx_transfer"
    /\ last.res = Err("InvalidToken")
    /\ wire = [stage |-> "cancelled", op |-> "cancel_rx_transfer",
               token |-> last.token]

\* What one step may do to the entries of a map: a TimedOut entry stays
\* TimedOut or is removed, and an Active entry becomes TimedOut only in a
\* step of update_transfers.
LegalTransitions(before, after, op) ==
    \A k \in DOMAIN before :
        /\ before[k].status = "TimedOut"
             => (k \notin DOMAIN after \/ after[k].status = "TimedOut")
        /\ (/\ before[k].status = "Active"
            /\ k \in DOMAIN after
            /\ after[k].status = "TimedOut")
             => op = "update_transfers"

\* C16: a stored RX or TX entry only changes Active -> TimedOut (by
\* update_transfers), Active -> freed or TimedOut -> freed; no operation
\* turns a TimedOut entry back into Active.
C16_TransferStateMachine ==
    [][/\ LegalTransitions(rx_transfers, rx_transfers', last'.op)
       /\ LegalTransitions(tx_transfers, tx_transfers', last'.op)]_vars

\* A frame arrived for a TimedOut RX entry, or a create_transmission was
\* made for the metadata of a TimedOut TX entry: the entry is TimedOut still.
C16_Witness ==
    /\ last.op \in {"try_receive_frame", "create_transmission"}
    /\ last.res.tag = "Err"
    /\ last.res.err \in {"Timeout", "AlreadyExists"}
    /\ \/ /\ last.op = "try_receive_frame"
          /\ IsTimedOut(rx_transfers, unwrap(FrameToken(last.frame)))
       \/ /\ last.op = "create_transmission"
          /\ IsTimedOut(tx_transfers, hash_metadata(last.metadata))

\* C17: with_rx_transfer, or transmit, called with the token of a TimedOut
\* entry reports TransferTimeout and removes the entry.
C17_TokenAccessFreesTimedOut ==
    [][/\ (/\ last'.op = "with_rx_transfer"
           /\ IsTimedOut(rx_transfers, last'.token))
          => /\ last'.res = Err("TransferTimeout")
             /\ last'.token \notin DOMAIN rx_transfers'
       /\ (/\ last'.op = "transmit_frame"
           /\ IsTimedOut(tx_transfers, last'.token))
          => /\ last'.res = Err("TransferTimeout")
             /\ last'.token \notin DOMAIN tx_transfers']_vars

-----------------------------------------------------------------------------
(* Housekeeping on its own: transfers are created and frames arrive, time   *)
(* passes, and update_transfers is called again and again; no token is ever *)
(* presented.                                                               *)

NextReap ==
    \/ MgrCreateTransmission
    \/ MgrTryReceiveFrame
    \/ MgrUpdateTransfers
    \/ MgrTick

SpecReap ==
    /\ Init
    /\ [][NextReap]_vars
    /\ WF_vars(MgrUpdateTransfers)
    /\ WF_vars(MgrTick)

\* C18: every entry that becomes TimedOut is eventually removed from its map
\* by the sweeps of update_transfers, without any token being presented.
C18_TimedOutEventuallyReaped ==
    \A k \in Tokens :
        /\ IsTimedOut(rx_transfers, k) ~> (k \notin DOMAIN rx_transfers)
        /\ IsTimedOut(tx_transfers, k) ~> (k \notin DOMAIN tx_transfers)

-----------------------------------------------------------------------------
(* The timeout sweep.                                                       *)

\* `after` is `before` with exactly the Active entries older than
\* now - timeout replaced by TimedOut, and the same keys.
SweptExactly(before, after, now, timeout) ==
    /\ DOMAIN after = DOMAIN before
    /\ \A k \in DOMAIN before :
          IF /\ before[k].status = "Active"
             /\ now - before[k].transfer_metadata.timestamp > timeout
            THEN after[k] = TimedOut
            ELSE after[k] = before[k]

C20_TimeoutsObservable ==
    [][/\ (/\ last'.op = "with_rx_transfer"
           /\ IsTimedOut(rx_transfers, last'.token))
          => /\ last'.res = Err("TransferTimeout")
             /\ last'.cb = None
       /\ (/\ last'.op = "transmit_frame"
           /\ IsTimedOut(tx_transfers, last'.token))
          => /\ last'.res = Err("TransferTimeout")
             /\ last'.frame = None
       /\ (/\ last'.op = "try_receive_frame"
           /\ last'.path \notin {"codec", "filter"}
           /\ IsTimedOut(rx_transfers, unwrap(FrameToken(last'.frame))))
          => /\ LET p == rx_process_frame(last'.frame)
                IN  append_frame(rx_transfers, p.frame,
                                 p.frame_metadata).res = Err("TimedOut")
             /\ last'.res = Err("Timeout")]_vars

\* with_rx_transfer has just been refused on an entry stored as TimedOut.
C20_Witness ==
    /\ last.op = "with_rx_transfer"
    /\ last.res = Err("TransferTimeout")
    /\ IsTimedOut(rx_transfers, last.token)

-----------------------------------------------------------------------------
(* Errors on the TX path.                                                   *)

TxErrors ==
    {Err("AnonNotSingleFrame"), Err("ServiceNoSourceID"),
     Err("ServiceNoDestinationID")}

\* C21: when Node::transmit_frame returns a TxError, the manager's cursor was
\* not advanced by the call and the transfer is no longer stored afterwards.
C21_CodecErrorTearsDown ==
    [][(last'.op = "transmit_frame" /\ last'.res \in TxErrors)
         => /\ IsActive(tx_transfers, last'.token)
            /\ \E r \in {transmit(tx_transfers, last'.token, id, clock)} :
                  last'.token \in DOMAIN r.tx
                     => r.tx[last'.token].consumed
                            = tx_transfers[last'.token].consumed
            /\ last'.token \notin DOMAIN tx_transfers']_vars

\* A stored Request on a node without an id was refused with
\* ServiceNoSourceID and is gone.
C21_Witness ==
    /\ last.op = "transmit_frame"
    /\ last.res = Err("ServiceNoSourceID")
    /\ id = None
    /\ is_some(last.input)
    /\ unwrap(last.input).metadata.transfer_kind = "Request"
    /\ last.token \notin DOMAIN tx_transfers

-----------------------------------------------------------------------------
(* Errors on the RX path.                                                   *)

\* C22: when try_receive_frame returns an error, the stored RX transfers are
\* exactly as before the call, so every frame is treated after the call as it
\* would have been treated before it.
C22_IngestErrorsDoNotPoison ==
    [][(last'.op = "try_receive_frame" /\ last'.res.tag = "Err")
         => /\ rx_transfers' = rx_transfers
            /\ ~last'.mutated]_vars

\* A frame with a repeated toggle was refused while its transfer was in
\* progress, and a valid next frame of that transfer is still accepted.
C22_Witness ==
    /\ last.op = "try_receive_frame"
    /\ last.res = Err("InvalidFrameOrdering")
    /\ is_some(last.before)
    /\ \E f \in RxFrames(clock) :
          /\ FrameToken(f) = FrameToken(last.frame)
          /\ try_receive_frame(rx_transfers, id, f).path = "append"

\* C23: try_receive_frame returns Ok(Some(token)) exactly when the frame was
\* accepted into a transfer (created or appended) and has end_of_transfer
\* set, and Ok(None) for an accepted frame without it; the token is the
\* frame's fingerprint; a transfer of one received frame is delivered by
\* with_rx_transfer as that frame's payload without the tail byte.
C23_TokenOnLastFrame ==
    /\ last.op = "try_receive_frame"
       => LET accepted == last.path \in {"create", "append"}
          IN  /\ (last.res.tag = "Ok" /\ is_some(last.res.token))
                    <=> (accepted /\ EndSet(last.frame))
              /\ (accepted /\ ~EndSet(last.frame)) => last.res = Ok(None)
              /\ is_some(last.res.token)
                    => last.res.token = FrameToken(last.frame)
    /\ (/\ last.op = "with_rx_transfer"
        /\ is_some(last.cb)
        /\ is_some(last.received)
        /\ unwrap(last.received).frames = 1)
       => unwrap(last.cb).payload = unwrap(last.received).bytes

\* A single-frame transfer for an unused fingerprint returned its token at
\* once, and the stored payload is the frame without its tail byte.
C23_Witness ==
    /\ last.op = "try_receive_frame"
    /\ last.path = "create"
    /\ StartSet(last.frame) /\ EndSet(last.frame)
    /\ is_some(last.res.token)
    /\ IsActive(rx_transfers, unwrap(last.res.token))
    /\ rx_transfers[unwrap(last.res.token)].payload = FrameBody(last.frame)
    /\ Len(FrameBody(last.frame)) = 2

\* C24: a frame that passes the codec and the addressing filter and whose
\* fingerprint has no stored RX transfer is refused with NewSessionNoStart,
\* creating nothing, when it is not a first frame; when it is a first frame,
\* a new Active RX transfer holding the frame's payload is created.
C24_NewSessionNeedsStart ==
    [][(/\ last'.op = "try_receive_frame"
        /\ last'.path \notin {"codec", "filter"}
        /\ unwrap(FrameToken(last'.frame)) \notin DOMAIN rx_transfers)
         => \E t \in {unwrap(FrameToken(last'.frame))} :
              IF StartSet(last'.frame)
                THEN /\ last'.path = "create"
                     /\ DOMAIN rx_transfers' = DOMAIN rx_transfers \cup {t}
                     /\ IsActive(rx_transfers', t)
                     /\ rx_transfers'[t].payload = FrameBody(last'.frame)
                     /\ \A k \in DOMAIN rx_transfers :
                           rx_transfers'[k] = rx_transfers[k]
                ELSE /\ last'.res = Err("NewSessionNoStart")
                     /\ rx_transfers' = rx_transfers]_vars

\* A last frame arrived for a fingerprint without a transfer and was refused.
C24_Witness ==
    /\ last.op = "try_receive_frame"
    /\ last.res = Err("NewSessionNoStart")
    /\ ~StartSet(last.frame)
    /\ EndSet(last.frame)
    /\ unwrap(FrameToken(last.frame)) \notin DOMAIN rx_transfers

-----------------------------------------------------------------------------
(* The fill callback of create_transmission.                                *)

\* C25: create_transmission does not fault whatever the fill callback returns,
\* and the payload it stores is at most get_crc_padded_size(requested) long,
\* with cursor 0.
C25_CreateTransmissionNeverFaults ==
    /\ ~panicked
    /\ (last.op = "create_transmission" /\ last.res.tag = "Ok")
       => \E t \in {unwrap(last.res.token)} :
             /\ IsActive(tx_transfers, t)
             /\ Len(tx_transfers[t].payload)
                   <= get_crc_padded_size(last.requested)
             /\ tx_transfers[t].consumed = 0

\* C26: when the fill callback returns an error, create_transmission returns
\* it as UserError and stores nothing: the TX map is unchanged, and a later
\* create_transmission with the same metadata and a callback that succeeds
\* is accepted.
C26_CallbackErrorStoresNothing ==
    [][(/\ last'.op = "create_transmission"
        /\ last'.cb_invoked
        /\ last'.fill.res = "Err")
         => /\ last'.res = Err("UserError")
            /\ tx_transfers' = tx_transfers
            /\ ~panicked'
            /\ \A fill \in Fills(last'.requested) :
                  fill.consumed = last'.requested
                     => create_transmission(tx_transfers', last'.requested,
                                            last'.metadata, fill).res
                            = Ok(Some(hash_metadata(last'.metadata)))]_vars

\* The callback failed on an empty manager, which is still empty.
C26_Witness ==
    /\ last.op = "create_transmission"
    /\ last.cb_invoked
    /\ last.res = Err("UserError")
    /\ tx_transfers = EmptyMap

-----------------------------------------------------------------------------
(* Can::transmit_frame on its own: the arguments are drawn at the start and *)
(* the function is applied to them once.                                    *)

CodecTxInputs ==
    {[stage |-> "codec_tx",
      transfer_metadata |-> TransferMetadata(0, 4, kind, 1, remote, 0),
      transport_metadata |-> [first_frame |-> first, toggle_bit |-> toggle],
      data |-> UserData(n)] :
        kind \in {"Message", "Request", "Response"},
        remote \in {None, Some(2)},
        first \in BOOLEAN, toggle \in BOOLEAN,
        n \in {0, 2, 7, 8, 13}}

InitCodecTx ==
    /\ id \in LocalIds
    /\ rx_transfers = EmptyMap
    /\ tx_transfers = EmptyMap
    /\ clock = 0
    /\ panicked = FALSE
    /\ last = [op |-> "new"]
    /\ tx_input = EmptyMap
    /\ rx_log = EmptyMap
    /\ wire \in CodecTxInputs

CodecTransmitFrame ==
    /\ wire.stage = "codec_tx"
    /\ last.op = "new"
    /\ last' = [op |-> "codec_transmit_frame",
                out |-> Can_transmit_frame(wire.transfer_metadata,
                                           wire.transport_metadata,
                                           wire.data, id, clock)]
    /\ UNCHANGED <<id, rx_transfers, tx_transfers, clock, panicked,
                   tx_input, rx_log, wire>>

SpecCodecTx == InitCodecTx /\ [][CodecTransmitFrame]_vars

\* C27: Can::transmit_frame returns AnonNotSingleFrame for a Message exactly
\* when the local node id is absent and more than 7 bytes remain; for a
\* Request or Response it returns ServiceNoSourceID when the local node id
\* is absent, otherwise ServiceNoDestinationID when the transfer has no
\* destination; in every other case it returns a frame and
\* consumed = min(7, data.len()).
C27_TransmitAddressingRules ==
    last.op = "codec_transmit_frame"
    => LET kind == wire.transfer_metadata.transfer_kind
           n == Len(wire.data)
           anonymous == id = None
           no_destination == wire.transfer_metadata.remote_node_id = None
       IN  /\ kind = "Message"
              => (last.out.res = Err("AnonNotSingleFrame")
                     <=> (anonymous /\ n > 7))
           /\ (kind # "Message" /\ anonymous)
              => last.out.res = Err("ServiceNoSourceID")
           /\ (kind # "Message" /\ ~anonymous /\ no_destination)
              => last.out.res = Err("ServiceNoDestinationID")
           /\ (\/ kind = "Message" /\ ~(anonymous /\ n > 7)
               \/ kind # "Message" /\ ~anonymous /\ ~no_destination)
              => /\ last.out.res.tag = "Ok"
                 /\ last.out.consumed = (IF n < 7 THEN n ELSE 7)
                 /\ Len(last.out.frame.payload) = last.out.consumed + 1

\* A Response from node 1 without a destination was refused.
C27_Witness ==
    /\ last.op = "codec_transmit_frame"
    /\ wire.transfer_metadata.transfer_kind = "Response"
    /\ id = Some(1)
    /\ last.out.res = Err("ServiceNoDestinationID")

-----------------------------------------------------------------------------
(* Draining: transfers are created by callbacks that report what they      *)
(* wrote, and the user keeps calling transmit_frame with each token.        *)

DrainCreate ==
    \E metadata \in TxMetas(clock), requested \in TxSizes :
        \E fill \in {f \in Fills(requested) :
                        f.res = "Ok" /\ f.consumed = requested} :
            /\ create_transmission_op(metadata, requested, fill)
            /\ UNCHANGED wire

DrainTransmit(token) == transmit_frame_op(token) /\ UNCHANGED wire

NextDrain ==
    \/ DrainCreate
    \/ \E token \in Tokens : DrainTransmit(token)

SpecDrain ==
    /\ Init
    /\ [][NextDrain]_vars
    /\ \A token \in Tokens : WF_vars(DrainTransmit(token))

\* C28: TX draining terminates.  A transmit_frame call that emits a frame
\* returns no next token exactly when that frame has end_of_transfer set;
\* after such a call the entry is gone and a further transmit with the token
\* returns InvalidToken; and every stored Active TX transfer whose token
\* keeps being presented is eventually freed.
C28_DrainingTerminates ==
    /\ [][(last'.op = "transmit_frame" /\ is_some(last'.frame))
            => /\ (last'.res.token = None) <=> EndSet(unwrap(last'.frame))
               /\ (last'.res.token = None)
                  => /\ last'.token \notin DOMAIN tx_transfers'
                     /\ transmit(tx_transfers', last'.token, id, clock).res
                           = Err("InvalidToken")
               /\ is_some(last'.res.token)
                  => /\ last'.res.token = Some(last'.token)
                     /\ IsActive(tx_transfers', last'.token)]_vars
    /\ \A token \in Tokens :
          IsActive(tx_transfers, token) ~> (token \notin DOMAIN tx_transfers)

\* The third frame of a 13-byte transfer carried end_of_transfer, returned no
\* token and freed the entry.
C28_Witness ==
    /\ last.op = "transmit_frame"
    /\ is_some(last.frame)
    /\ last.index = 2
    /\ EndSet(unwrap(last.frame))
    /\ last.res = Ok(None)
    /\ last.token \notin DOMAIN tx_transfers

-----------------------------------------------------------------------------
(* Two RX transfers with different fingerprints, their frames delivered in  *)
(* any interleaving that keeps each transfer's own order.                   *)

\* Frame payload sequences: a good two-frame transfer, one with a repeated
\* toggle in between, a single frame, a last frame without a start, and a
\* repeated first frame.
InterleavePayloads ==
    LET single == SliceTo(RxUser, 2) \o <<TailByte_new(TRUE, TRUE, TRUE, 0)>>
        first == SliceTo(RxUser, 7) \o <<TailByte_new(TRUE, FALSE, TRUE, 0)>>
        last_good == SliceFrom(RxUser, 7) \o crc_bytes(RxUser)
                        \o <<TailByte_new(FALSE, TRUE, FALSE, 0)>>
        last_same_toggle == SliceFrom(RxUser, 7) \o crc_bytes(RxUser)
                               \o <<TailByte_new(FALSE, TRUE, TRUE, 0)>>
    IN  { <<first, last_good>>, <<first, last_same_toggle, last_good>>,
          <<single>>, <<last_good>>, <<first, first, last_good>> }

InterleaveFrames(raw_id) ==
    {[i \in DOMAIN payloads |-> CanFrame(0, raw_id, payloads[i])] :
        payloads \in InterleavePayloads}

InitInterleave ==
    /\ id \in LocalIds
    /\ rx_transfers = EmptyMap
    /\ tx_transfers = EmptyMap
    /\ clock = 0
    /\ panicked = FALSE
    /\ last = [op |-> "new"]
    /\ tx_input = EmptyMap
    /\ rx_log = EmptyMap
    /\ \E a \in InterleaveFrames(CanMessageId_new(4, 1, Some(1))),
          b \in InterleaveFrames(CanServiceId_new(4, TRUE, 1, 2, 1)) :
          wire = [stage |-> "interleave",
                  frames |-> [a |-> a, b |-> b],
                  sent |-> [a |-> 0, b |-> 0],
                  results |-> [a |-> <<>>, b |-> <<>>],
                  order |-> <<>>]

\* Node::try_receive_frame with the next frame of transfer s.
DeliverNext(s) ==
    /\ wire.stage = "interleave"
    /\ wire.sent[s] < Len(wire.frames[s])
    /\ \E raw \in {wire.frames[s][wire.sent[s] + 1]} :
       \E r \in {try_receive_frame(rx_transfers, id, raw)} :
          /\ rx_transfers' = r.rx
          /\ last' = [op |-> "try_receive_frame", frame |-> raw,
                      res |-> r.res, path |-> r.path,
                      mutated |-> r.rx # rx_transfers, before |-> None]
          /\ wire' = [wire EXCEPT !.sent[s] = @ + 1,
                                  !.results[s] = Append(@, r.res),
                                  !.order = Append(@, s)]
    /\ UNCHANGED <<id, tx_transfers, clock, panicked, tx_input, rx_log>>

NextInterleave == DeliverNext("a") \/ DeliverNext("b")

SpecInterleave == InitInterleave /\ [][NextInterleave]_vars

\* The manager and the results after the first k of `frames` were delivered
\* to a fresh node with nothing in between.
RECURSIVE DeliverAlone(_, _)
DeliverAlone(frames, k) ==
    IF k = 0 THEN [rx |-> EmptyMap, results |-> <<>>]
    ELSE LET prev == DeliverAlone(frames, k - 1)
             r == try_receive_frame(prev.rx, id, frames[k])
         IN  [rx |-> r.rx, results |-> Append(prev.results, r.res)]

\* C29: however the frames of two RX transfers with different fingerprints
\* are interleaved, each transfer sees the same results (tokens and errors),
\* and holds the same stored entry, as when its frames are delivered alone.
C29_InterleavingIndependence ==
    wire.stage = "interleave"
    => /\ FrameToken(wire.frames["a"][1]) # FrameToken(wire.frames["b"][1])
       /\ \A s \in {"a", "b"} :
             \E alone \in {DeliverAlone(wire.frames[s], wire.sent[s])},
                t \in {unwrap(FrameToken(wire.frames[s][1]))} :
                /\ wire.results[s] = alone.results
                /\ (t \in DOMAIN rx_transfers) <=> (t \in DOMAIN alone.rx)
                /\ t \in DOMAIN rx_transfers
                      => rx_transfers[t] = alone.rx[t]

\* Two two-frame transfers were delivered frame by frame in turn and both
\* completed with their tokens.
C29_Witness ==
    /\ wire.stage = "interleave"
    /\ wire.order = <<"a", "b", "a", "b">>
    /\ Len(wire.frames["a"]) = 2 /\ Len(wire.frames["b"]) = 2
    /\ is_some(wire.results["a"][2].token)
    /\ is_some(wire.results["b"][2].token)
    /\ last.frame = wire.frames["b"][2]
    /\ Cardinality(DOMAIN rx_transfers) = 2

-----------------------------------------------------------------------------
(* The frames of one RX transfer arriving over time, with sweeps of a fixed *)
(* timeout in between.  `wire` remembers when the transfer last accepted a  *)
(* frame.                                                                   *)

GapFrames(timestamp) ==
    {CanFrame(timestamp, CanMessageId_new(4, 1, Some(1)), payload) :
        payload \in
          { SliceTo(RxUser, 7) \o <<TailByte_new(TRUE, FALSE, TRUE, 0)>>,
            SliceTo(RxUser, 7) \o <<TailByte_new(FALSE, FALSE, FALSE, 0)>> }}

InitGap ==
    /\ id \in LocalIds
    /\ rx_transfers = EmptyMap
    /\ tx_transfers = EmptyMap
    /\ clock = 0
    /\ panicked = FALSE
    /\ last = [op |-> "new"]
    /\ tx_input = EmptyMap
    /\ rx_log = EmptyMap
    /\ \E timeout \in {1, 2} :
          wire = [stage |-> "gap", timeout |-> timeout, received_at |-> None]

GapReceive ==
    \E raw \in GapFrames(clock) :
    \E r \in {try_receive_frame(rx_transfers, id, raw)} :
        /\ wire.stage = "gap"
        /\ \A k \in DOMAIN r.rx :
              r.rx[k].status = "Active" => Len(r.rx[k].payload) <= MaxGapLen
        /\ rx_transfers' = r.rx
        /\ last' = [op |-> "try_receive_frame", frame |-> raw,
                    res |-> r.res, path |-> r.path,
                    mutated |-> r.rx # rx_transfers, before |-> None]
        /\ wire' = IF r.path \in {"create", "append"}
                     THEN [wire EXCEPT !.received_at = Some(clock)]
                     ELSE wire
        /\ UNCHANGED <<id, tx_transfers, clock, panicked, tx_input, rx_log>>

GapUpdateTransfers ==
    /\ wire.stage = "gap"
    /\ update_transfers_op(wire.timeout)
    /\ UNCHANGED wire

GapTick ==
    /\ wire.stage = "gap"
    /\ clock < MaxGapTime
    /\ clock' = clock + 1
    /\ last' = [op |-> "tick"]
    /\ UNCHANGED <<id, rx_transfers, tx_transfers, panicked, tx_input,
                   rx_log, wire>>

NextGap == GapReceive \/ GapUpdateTransfers \/ GapTick

SpecGap == InitGap /\ [][NextGap]_vars

\* C30: an RX transfer is marked TimedOut (and append_frame then reports
\* TimedOut) only if more than the timeout has passed since its previous
\* frame was received, however long ago its first frame arrived.
C30_TimedOutOnlySincePreviousFrame ==
    [][\A k \in DOMAIN rx_transfers :
          (IsActive(rx_transfers, k) /\ IsTimedOut(rx_transfers', k))
             => /\ is_some(wire.received_at)
                /\ clock - unwrap(wire.received_at) > wire.timeout]_vars

-----------------------------------------------------------------------------
(* Completed RX transfers and later frames.                                 *)

\* C31: once try_receive_frame has returned a token for a transfer, and
\* until that token is consumed, no later inbound frame changes the
\* transfer's stored entry or makes a second token be returned for it.
\* (Stated for behaviours without with_rx_transfer and cancel_rx_transfer,
\* where no issued token is ever consumed.)
C31_CompletedTransferStable ==
    [][\A k \in DOMAIN rx_log :
          (/\ rx_log[k].issued
           /\ IsActive(rx_transfers, k)
           /\ last'.op = "try_receive_frame")
             => /\ k \in DOMAIN rx_transfers'
                /\ rx_transfers'[k] = rx_transfers[k]
                /\ last'.res.token # Some(k)]_vars

-----------------------------------------------------------------------------
(* The RX map and the TX map side by side: the node sends a message with    *)
(* the metadata of the message it receives, so that both maps use the same  *)
(* token value.                                                             *)

StoresCreateTransmission ==
    \E requested \in TxSizes :
        \E fill \in LoopFills(requested) :
            /\ create_transmission_op(
                   TransferMetadata(clock, 4, "Message", 1, Some(1), 0),
                   requested, fill)
            /\ wire' = Cancelled(last)

NextStores ==
    \/ StoresCreateTransmission
    \/ MgrTransmitFrame
    \/ MgrCancelTxTransfer
    \/ MgrTryReceiveFrame
    \/ MgrWithRxTransfer
    \/ MgrCancelRxTransfer

SpecStores == Init /\ [][NextStores]_vars

\* C32: the RX operations (try_receive_frame with append_frame and
\* new_transfer, with_rx_transfer, cancel_rx_transfer) leave the TX map as it
\* was, and the TX operations (create_transmission, transmit,
\* cancel_tx_transfer) leave the RX map as it was, also when both maps hold
\* a transfer under the same token.
C32_StoresIndependent ==
    [][/\ last'.op \in {"try_receive_frame", "with_rx_transfer",
                        "cancel_rx_transfer"}
          => tx_transfers' = tx_transfers
       /\ last'.op \in {"create_transmission", "transmit_frame",
                        "cancel_tx_transfer"}
          => rx_transfers' = rx_transfers]_vars

\* A TX transfer was cancelled while the RX map holds an Active transfer
\* with the same token and the same metadata, timestamp aside.
C32_Witness ==
    /\ last.op = "cancel_tx_transfer"
    /\ last.res.tag = "Ok"
    /\ last.token \notin DOMAIN tx_transfers
    /\ IsActive(rx_transfers, last.token)
    /\ Identity(rx_transfers[last.token].transfer_metadata)
          = Identity(TransferMetadata(0, 4, "Message", 1, Some(1), 0))
    /\ hash_metadata(TransferMetadata(0, 4, "Message", 1, Some(1), 0))
          = last.token

=============================================================================
